---------------------------- MODULE Spec2Model ----------------------------
(***************************************************************************)
(* Band-constrained Lp-norm (BCLP) minimisation of vamtoolbox, modelled    *)
(* from src/vamtoolbox/backup/BCLP_20221026.py: LogPerf, BCLPNorm and      *)
(* minimizeBCLP.                                                           *)
(*                                                                         *)
(* Numbers.  The program computes in IEEE doubles.  A double is modelled   *)
(* as a record [k, n]: k = "num" with the integer n (fixed point, unit     *)
(* resolution, results of roots and quotients rounded down to the grid),   *)
(* k = "inf" with n = 1 or -1, or k = "nan".  The special values follow    *)
(* numpy: nan propagates through arithmetic, every comparison with nan is  *)
(* false, 0 * inf = nan, a negative base to a non-integer power is nan, 0  *)
(* to a negative power is inf and anything to the power 0 is 1.            *)
(*                                                                         *)
(* Arrays.  A numpy array is a record [shape, data] with data in C order;  *)
(* reshape changes shape and keeps data.                                   *)
(***************************************************************************)
EXTENDS Integers, Sequences, FiniteSets, TLC

\* ------------------------------------------------------------------------
\* Doubles
\* ------------------------------------------------------------------------
F(n) == [k |-> "num", n |-> n]

NaN == [k |-> "nan", n |-> 0]

PosInf == [k |-> "inf", n |-> 1]

NegInf == [k |-> "inf", n |-> -1]

IsNaN(x) == x.k = "nan"

IsNum(x) == x.k = "num"

IsInf(x) == x.k = "inf"

SignOf(n) == IF n > 0 THEN 1 ELSE IF n < 0 THEN -1 ELSE 0

AbsInt(n) == IF n < 0 THEN -n ELSE n

FNeg(x) == IF IsNaN(x) THEN NaN ELSE [k |-> x.k, n |-> -x.n]

FAdd(x, y) ==
    IF IsNaN(x) \/ IsNaN(y) THEN NaN
    ELSE IF IsInf(x) /\ IsInf(y) THEN (IF x.n = y.n THEN x ELSE NaN)
    ELSE IF IsInf(x) THEN x
    ELSE IF IsInf(y) THEN y
    ELSE F(x.n + y.n)

FSub(x, y) == FAdd(x, FNeg(y))

FMul(x, y) ==
    IF IsNaN(x) \/ IsNaN(y) THEN NaN
    ELSE IF IsInf(x) \/ IsInf(y)
         THEN (IF SignOf(x.n) * SignOf(y.n) = 0 THEN NaN
               ELSE [k |-> "inf", n |-> SignOf(x.n) * SignOf(y.n)])
    ELSE F(x.n * y.n)

\* x / d for a double x and a positive integer d (rounded down to the grid)
FDivInt(x, d) == IF IsNum(x) THEN F(x.n \div d) ELSE x

FAbs(x) == IF IsNaN(x) THEN NaN ELSE [k |-> x.k, n |-> AbsInt(x.n)]

\* np.sign
FSign(x) == IF IsNaN(x) THEN NaN ELSE F(SignOf(x.n))

\* x > y, x >= y, x <= y as numpy evaluates them (false when nan is involved)
FRank(x) == IF IsInf(x) THEN x.n ELSE 0

FGt(x, y) ==
    /\ ~IsNaN(x) /\ ~IsNaN(y)
    /\ \/ FRank(x) > FRank(y)
       \/ FRank(x) = FRank(y) /\ IsNum(x) /\ IsNum(y) /\ x.n > y.n

FGe(x, y) ==
    /\ ~IsNaN(x) /\ ~IsNaN(y)
    /\ \/ FGt(x, y)
       \/ x = y

FLe(x, y) == FGe(y, x)

\* np.maximum / np.minimum (nan propagates)
FMax(x, y) == IF IsNaN(x) \/ IsNaN(y) THEN NaN ELSE IF FGt(y, x) THEN y ELSE x

FMin(x, y) == IF IsNaN(x) \/ IsNaN(y) THEN NaN ELSE IF FGt(x, y) THEN y ELSE x

RECURSIVE IPow(_, _)
IPow(b, e) == IF e = 0 THEN 1 ELSE b * IPow(b, e - 1)

\* the largest r with r^d <= n, searched upwards from r (n >= 0, d >= 1)
RECURSIVE IRootFrom(_, _, _)
IRootFrom(n, d, r) == IF IPow(r + 1, d) > n THEN r ELSE IRootFrom(n, d, r + 1)

IRoot(n, d) == IF d = 1 THEN n ELSE IRootFrom(n, d, 0)

\* x ** (a/b) for a double x and the rational exponent a/b (b > 0), np.power
FPow(x, a, b) ==
    LET isInt == (a % b = 0)
        e     == a \div b
        odd   == isInt /\ (e % 2 = 1)
    IN  IF a = 0 THEN F(1)
        ELSE IF IsNaN(x) THEN NaN
        ELSE IF IsInf(x) /\ x.n = 1 THEN (IF a > 0 THEN PosInf ELSE F(0))
        ELSE IF IsInf(x) THEN (IF a > 0 THEN (IF odd THEN NegInf ELSE PosInf) ELSE F(0))
        ELSE IF x.n = 0 THEN (IF a > 0 THEN F(0) ELSE PosInf)
        ELSE IF x.n < 0 /\ ~isInt THEN NaN
        ELSE IF x.n < 0
             THEN (IF e > 0 THEN F(IPow(x.n, e))
                   ELSE IF x.n = -1 THEN F(IF odd THEN -1 ELSE 1)
                   ELSE F(0))
        ELSE IF a > 0 THEN F(IRoot(IPow(x.n, a), b))
        ELSE IF x.n = 1 THEN F(1)
        ELSE F(0)


\* ------------------------------------------------------------------------
\* Arrays
\* ------------------------------------------------------------------------
Arr(shape, data) == [shape |-> shape, data |-> data]

\* the value of an attribute that is still None
None == Arr(<<>>, <<>>)

RECURSIVE Product(_)
Product(s) == IF s = <<>> THEN 1 ELSE Head(s) * Product(Tail(s))

RECURSIVE SumSeq(_)
SumSeq(s) == IF s = <<>> THEN F(0) ELSE FAdd(Head(s), SumSeq(Tail(s)))

RECURSIVE MaxSeq(_)
MaxSeq(s) == IF Len(s) = 1 THEN Head(s) ELSE FMax(Head(s), MaxSeq(Tail(s)))

\* np.reshape(a, shape): same data, new shape
Reshape(a, shape) == Arr(shape, a.data)

\* np.zeros(n) * np.nan
NaNs(n) == [i \in 1..n |-> NaN]

Zeros(n) == [i \in 1..n |-> F(0)]

\* elementwise a - b, x * a (x a double), a * r (r a positive fraction)
ArrSub(a, b) == Arr(a.shape, [i \in DOMAIN a.data |-> FSub(a.data[i], b.data[i])])

ArrScale(x, a) == Arr(a.shape, [i \in DOMAIN a.data |-> FMul(x, a.data[i])])

\* x * r for a double x and a positive fraction r
FMulFrac(x, r) == IF IsNum(x) THEN F((x.n * r[1]) \div r[2]) ELSE x

ArrMulFrac(a, r) == Arr(a.shape, [i \in DOMAIN a.data |-> FMulFrac(a.data[i], r)])

\* ------------------------------------------------------------------------
\* Collaborators of the optimizer (projector, response model, sinogram
\* filter, discretisation, visualiser).  Their code is not part of the
\* optimizer file; they are modelled from their described contracts.
\* ------------------------------------------------------------------------
\* native (cylindrical) sinogram shape: n_angles x detector bins
SinoShape == <<2, 2>>

VolShape == <<2>>

n_angles == SinoShape[1]

\* system matrix of the projector: one row per sinogram element (C order),
\* one column per voxel.  Angle 0 sees each voxel in its own bin, angle 1
\* sees both voxels in bin 0.
ProjMatrix == << <<1, 0>>, <<0, 1>>, <<1, 1>>, <<0, 0>> >>

RECURSIVE WeightedSum(_, _, _)
WeightedSum(coef, vals, i) ==
    IF i > Len(vals) THEN F(0)
    ELSE IF coef[i] = 0 THEN WeightedSum(coef, vals, i + 1)
    ELSE FAdd(FMul(F(coef[i]), vals[i]), WeightedSum(coef, vals, i + 1))

\* P.forward: volume -> sinogram in its native shape
PForward(f) ==
    Arr(SinoShape,
        [i \in 1..Product(SinoShape) |-> WeightedSum(ProjMatrix[i], f.data, 1)])

\* P.backward: sinogram (native shape) -> volume, the adjoint of PForward
PBackward(g) ==
    Arr(VolShape,
        [j \in 1..Product(VolShape) |->
            WeightedSum([i \in 1..Product(SinoShape) |-> ProjMatrix[i][j]], g.data, 1)])

\* response model: a linear-gain material response
RespGain == 2

ResponseMap(d) == Arr(d.shape, [i \in DOMAIN d.data |-> FMul(F(RespGain), d.data[i])])

ResponseMapInv(m) == Arr(m.shape, [i \in DOMAIN m.data |-> FDivInt(m.data[i], RespGain)])

ResponseDmapdf(d) ==
    Arr(d.shape, [i \in DOMAIN d.data |-> IF IsNaN(d.data[i]) THEN NaN ELSE F(RespGain)])

\* is the target in the range of the response over non-negative dose
CheckResponseTarget(t) == \A i \in DOMAIN t.data : FGe(t.data[i], F(0)) /\ IsNum(t.data[i])

\* vamtoolbox.util.data.filterSinogram: "none" leaves the sinogram alone, "ramp"
\* convolves each angle's row with the kernel (-1, 2, -1)
FilterSinogram(g, filter) ==
    IF filter = "none" THEN g
    ELSE LET nr == g.shape[2]
             at(i, d) == IF ((i - 1) % nr) + d \in 0..(nr - 1) THEN g.data[i + d] ELSE F(0)
         IN  Arr(g.shape,
                 [i \in DOMAIN g.data |->
                     FSub(FSub(FMul(F(2), g.data[i]), at(i, -1)), at(i, 1))])

\* one value quantised onto `levels` equally spaced levels over [0, hi]; a range
\* of zero width has the single level 0
DiscretizeValue(x, levels, hi) ==
    IF IsNaN(x) \/ ~IsNum(hi) THEN NaN
    ELSE IF hi.n = 0 \/ levels = 1 THEN F(0)
    ELSE IF IsInf(x) THEN FMul(x, F(SignOf(hi.n)))
    ELSE LET s   == SignOf(hi.n)
             w   == s * hi.n
             idx == (2 * s * x.n * (levels - 1) + w) \div (2 * w)
         IN  F((idx * hi.n) \div (levels - 1))

\* vamtoolbox.util.data.discretize(g, bit_depth, [0.0, hi])
Discretize(g, levels, hi) ==
    Arr(g.shape, [i \in DOMAIN g.data |-> DiscretizeValue(g.data[i], levels, hi)])


\* ------------------------------------------------------------------------
\* Options.  p and q are positive reals, kept as fractions <<num, den>>;
\* bit_depth is <<>> for None and <<levels>> otherwise.
\* ------------------------------------------------------------------------
MaxIter == 2

NIterSet == 0..MaxIter

TargetSet == { <<0, 0>>, <<4, 0>>, <<2, 6>> }

EpsSet == {0, 1}

WeightSet == { <<1, 1>>, <<2, 0>> }

PSet == { <<1, 2>>, <<1, 1>>, <<3, 2>>, <<2, 1>> }

QSet == { <<1, 1>>, <<2, 1>> }

LearningRateSet == {1}

BoundsSet == { <<0, 4>>, <<1, 3>> }

BitDepthSet == { <<>>, <<2>> }

FilterSet == {"none", "ramp"}

VerboseSet == {"off", "time", "plot"}

FArr(shape, ints) == Arr(shape, [i \in DOMAIN ints |-> F(ints[i])])

\* a[i] with Python indexing: slots count from 0, negative i counts from the end
PyIndex(a, i) == IF i < 0 THEN a[Len(a) + i + 1] ELSE a[i + 1]

PyStore(a, i, x) == [a EXCEPT ![IF i < 0 THEN Len(a) + i + 1 ELSE i + 1] = x]

VARIABLES
    pc,            \* position in minimizeBCLP / BCLPNorm.__init__ / gradientDescent
    options,       \* the Options object
    target_geo,    \* target_geo.array
    logs,          \* the LogPerf object (bclp.logs)
    bclp,          \* the BCLPNorm object
    g_iter,        \* local g_iter of gradientDescent, then g_opt of minimizeBCLP
    iter,          \* number of loop iterations of gradientDescent begun
    result,        \* the value returned by minimizeBCLP
    now,           \* time.perf_counter()
    loss_writes,   \* per slot of logs.loss, how many times computeLoss stored into it
    exception,     \* the exception that ended the run, "none" while running
    uv_call        \* the latest updateVariables call: its time, index and sinogram

vars == <<pc, options, target_geo, logs, bclp, g_iter, iter, result, now,
          loss_writes, exception, uv_call>>

\* ------------------------------------------------------------------------
\* LogPerf
\* ------------------------------------------------------------------------
LogPerfInit(opts) ==
    [ curr_iter  |-> 0,
      loss       |-> NaNs(opts.n_iter + 1),
      l0_v       |-> NaNs(opts.n_iter + 1),
      l1_v       |-> NaNs(opts.n_iter + 1),
      l2_v       |-> NaNs(opts.n_iter + 1),
      lf_v       |-> NaNs(opts.n_iter + 1),
      l0_all     |-> NaNs(opts.n_iter + 1),
      l1_all     |-> NaNs(opts.n_iter + 1),
      l2_all     |-> NaNs(opts.n_iter + 1),
      lf_all     |-> NaNs(opts.n_iter + 1),
      ver        |-> NaNs(opts.n_iter + 1),
      iter_times |-> Zeros(opts.n_iter + 1),
      t0         |-> NaN ]

startTiming(lg, t) == [lg EXCEPT !.t0 = F(t)]

\* recordIterTime that stores the time in the slot before the current one
recordIterTimePrevious(lg, t) ==
    [lg EXCEPT !.iter_times = PyStore(lg.iter_times, lg.curr_iter - 1, FSub(F(t), lg.t0))]

recordIterTime(lg, t) ==
    [lg EXCEPT !.iter_times = PyStore(lg.iter_times, lg.curr_iter, FSub(F(t), lg.t0))]

\* ------------------------------------------------------------------------
\* BCLPNorm
\* ------------------------------------------------------------------------
checkSinogramShape(g, desired_shape, g0_shape) ==
    IF desired_shape = "flattened"
    THEN (IF Len(g.shape) > 1 THEN Reshape(g, <<Product(g.shape)>>) ELSE g)
    ELSE IF desired_shape = "cylindrical"
    THEN (IF Len(g.shape) = 1 THEN Reshape(g, g0_shape) ELSE g)
    ELSE g

\* np.clip(g, a_min, a_max)
Clip(g, a_min, a_max) ==
    Arr(g.shape, [i \in DOMAIN g.data |-> FMin(FMax(g.data[i], a_min), a_max)])

imposeSinogramConstraints(b, g) ==
    Clip(IF b.bit_depth # <<>>
         THEN Discretize(g, b.bit_depth[1], MaxSeq(g.data))
         ELSE g,
         b.glb, b.gub)

\* updateVariables whose first guarded assignment does not record the index at
\* which the dose was computed
updateDoseUnstamped(b, c, g) ==
    IF b.dose_iter # c
    THEN [b EXCEPT
            !.dose = ArrMulFrac(PBackward(checkSinogramShape(g, "cylindrical", b.g0_shape)),
                                b.tomogram_scale),
            !.recomputes.dose[c + 1] = @ + 1]
    ELSE b

\* the five guarded assignments of updateVariables, lines 115-134, in order.
\* b.recomputes counts, per variable and per iteration index, how often the
\* guarded branch ran (a call counter around P.backward, response_model.map
\* and the three array expressions).
updateDose(b, c, g) ==
    IF b.dose_iter # c
    THEN [b EXCEPT
            !.dose = ArrMulFrac(PBackward(checkSinogramShape(g, "cylindrical", b.g0_shape)),
                                b.tomogram_scale),
            !.dose_iter = c,
            !.recomputes.dose[c + 1] = @ + 1]
    ELSE b

updateMappedDose(b, c) ==
    IF b.mapped_dose_iter # c
    THEN [b EXCEPT !.mapped_dose = ResponseMap(b.dose), !.mapped_dose_iter = c,
                   !.recomputes.mapped_dose[c + 1] = @ + 1]
    ELSE b

updateErrorFromTarget(b, c) ==
    IF b.mapped_dose_error_from_f_T_iter # c
    THEN [b EXCEPT !.mapped_dose_error_from_f_T = ArrSub(b.mapped_dose, b.target_geo),
                   !.mapped_dose_error_from_f_T_iter = c,
                   !.recomputes.mapped_dose_error_from_f_T[c + 1] = @ + 1]
    ELSE b

updateErrorFromBand(b, c) ==
    IF b.mapped_dose_error_from_band_iter # c
    THEN [b EXCEPT
            !.mapped_dose_error_from_band =
                Arr(b.mapped_dose_error_from_f_T.shape,
                    [i \in DOMAIN b.mapped_dose_error_from_f_T.data |->
                        FSub(FAbs(b.mapped_dose_error_from_f_T.data[i]), b.eps)]),
            !.mapped_dose_error_from_band_iter = c,
            !.recomputes.mapped_dose_error_from_band[c + 1] = @ + 1]
    ELSE b

updateViolation(b, c) ==
    IF b.v_iter # c
    THEN [b EXCEPT
            !.v = Arr(b.mapped_dose_error_from_band.shape,
                      [i \in DOMAIN b.mapped_dose_error_from_band.data |->
                          FGt(b.mapped_dose_error_from_band.data[i], F(0))]),
            !.v_iter = c,
            !.recomputes.v[c + 1] = @ + 1]
    ELSE b

updateVariables(b, lg, g) ==
    updateViolation(
        updateErrorFromBand(
            updateErrorFromTarget(
                updateMappedDose(
                    updateDose(b, lg.curr_iter, g),
                    lg.curr_iter),
                lg.curr_iter),
            lg.curr_iter),
        lg.curr_iter)

\* a boolean as a factor of a product
FBool(t) == IF t THEN F(1) ELSE F(0)

\* the loss computed from the cached variables of b (lines 140-142)
LossIntegrand(b) ==
    [i \in DOMAIN b.v.data |->
        FMul(FMul(FBool(b.v.data[i]), b.weight.data[i]),
             FPow(b.mapped_dose_error_from_band.data[i], b.p[1], b.p[2]))]

LossOfState(b) ==
    FPow(FMul(SumSeq(LossIntegrand(b)), F(b.dvol)), b.q[1] * b.p[2], b.q[2] * b.p[1])

\* the per-voxel operand of the gradient, line 153
GradientOperand(b) ==
    Arr(b.v.shape,
        [i \in DOMAIN b.v.data |->
            FMul(FMul(FMul(FMul(FBool(b.v.data[i]), b.weight.data[i]),
                           FPow(b.mapped_dose_error_from_band.data[i],
                                b.p[1] - b.p[2], b.p[2])),
                      FSign(b.mapped_dose_error_from_f_T.data[i])),
                 ResponseDmapdf(b.dose).data[i])])

\* q * loss[curr_iter - 1] ** ((q - p) / q), line 156
GradientFactor(b, lg) ==
    FMulFrac(FPow(PyIndex(lg.loss, lg.curr_iter - 1),
                  b.q[1] * b.p[2] - b.p[1] * b.q[2], b.p[2] * b.q[1]),
             b.q)

\* computeLossGradient after its updateVariables, lines 153-159
GradientOfState(b, lg) ==
    checkSinogramShape(ArrScale(GradientFactor(b, lg), PForward(GradientOperand(b))),
                       "flattened", b.g0_shape)

\* BCLPNorm.__init__ up to the initial sinogram (lines 47-105)
BCLPNormInit(target, opts) ==
    LET b0 == [ target_geo     |-> target,
                tomogram_scale |-> <<1, n_angles>>,
                response_model |-> "linear-gain",
                eps            |-> F(opts.eps),
                weight         |-> opts.weight,
                p              |-> opts.p,
                q              |-> opts.q,
                learning_rate  |-> F(opts.learning_rate),
                glb            |-> F(opts.blb),
                gub            |-> F(opts.bub),
                bit_depth      |-> opts.bit_depth,
                dvol           |-> 1,
                verbose        |-> opts.verbose,
                dose                        |-> None,
                mapped_dose                 |-> None,
                mapped_dose_error_from_f_T  |-> None,
                mapped_dose_error_from_band |-> None,
                v                           |-> None,
                dose_iter                        |-> -1,
                mapped_dose_iter                 |-> -1,
                mapped_dose_error_from_f_T_iter  |-> -1,
                mapped_dose_error_from_band_iter |-> -1,
                v_iter                           |-> -1,
                dp      |-> [attached    |-> (opts.verbose = "plot"),
                             updates     |-> 0,
                             interactive |-> (opts.verbose = "plot")],
                warned   |-> ~CheckResponseTarget(target),
                recomputes |->
                    [x \in {"dose", "mapped_dose", "mapped_dose_error_from_f_T",
                             "mapped_dose_error_from_band", "v"} |->
                        [c \in 1..(opts.n_iter + 2) |-> 0]],
                g0       |-> None,
                g0_shape |-> <<>> ]
        g0a == PForward(ResponseMapInv(target))
        g0b == FilterSinogram(g0a, opts.filter)
    IN  [b0 EXCEPT !.g0_shape = g0a.shape,
                   !.g0 = imposeSinogramConstraints(b0, g0b)]

\* the object before BCLPNorm(...) has run
NoObject == [constructed |-> FALSE]

\* no updateVariables call yet
NoCall == [at |-> -1, c |-> -1, g |-> None, repeat |-> FALSE]

\* updateVariables(g) called at time t with logs.curr_iter = c; repeat tells
\* whether the call before it had the same index and the same sinogram
Call(t, c, g) ==
    [at |-> t, c |-> c, g |-> g, repeat |-> (uv_call.c = c /\ uv_call.g.data = g.data)]

Init ==
    /\ pc = "start"
    /\ \E n \in NIterSet, t \in TargetSet, e \in EpsSet, w \in WeightSet,
          pp \in PSet, qq \in QSet, lr \in LearningRateSet, bd \in BoundsSet,
          bits \in BitDepthSet, f \in FilterSet, vb \in VerboseSet :
            /\ options = [ n_iter |-> n, eps |-> e, weight |-> FArr(VolShape, w),
                           p |-> pp, q |-> qq, learning_rate |-> lr,
                           blb |-> bd[1], bub |-> bd[2], bit_depth |-> bits,
                           filter |-> f, verbose |-> vb ]
            /\ target_geo = FArr(VolShape, t)
    /\ logs = NoObject
    /\ bclp = NoObject
    /\ g_iter = None
    /\ iter = 0
    /\ result = NoObject
    /\ now = 0
    /\ loss_writes = <<>>
    /\ exception = "none"
    /\ uv_call = NoCall

\* bclp = BCLPNorm(target_geo, proj_geo, options), up to line 105
Construct ==
    /\ pc = "start"
    /\ logs' = startTiming(LogPerfInit(options), now)
    /\ bclp' = BCLPNormInit(target_geo, options)
    /\ loss_writes' = [i \in 1..(options.n_iter + 1) |-> 0]
    /\ pc' = "init_computeLoss"
    /\ now' = now + 1
    /\ UNCHANGED <<options, target_geo, g_iter, iter, result, exception, uv_call>>

\* self.computeLoss(g): line 108 with g = g0, line 187 with g = g_iter
computeLoss ==
    /\ pc \in {"init_computeLoss", "gd_computeLoss"}
    /\ bclp' = updateVariables(bclp, logs,
                               IF pc = "init_computeLoss" THEN bclp.g0 ELSE g_iter)
    /\ logs' = [logs EXCEPT !.loss = PyStore(logs.loss, logs.curr_iter, LossOfState(bclp'))]
    /\ loss_writes' = PyStore(loss_writes, logs.curr_iter,
                              PyIndex(loss_writes, logs.curr_iter) + 1)
    /\ uv_call' = Call(now, logs.curr_iter,
                       IF pc = "init_computeLoss" THEN bclp.g0 ELSE g_iter)
    /\ pc' = IF pc = "init_computeLoss" THEN "init_callback" ELSE "gd_callback"
    /\ now' = now + 1
    /\ UNCHANGED <<options, target_geo, g_iter, iter, result, exception>>

\* self.callback(g): line 109 and line 188.  self.dp exists only when verbose
\* is 'plot'; without it line 168 raises AttributeError after the time of the
\* iteration was recorded.
callback ==
    /\ pc \in {"init_callback", "gd_callback"}
    /\ IF bclp.dp.attached
       THEN /\ bclp' = [bclp EXCEPT !.dp.updates = @ + 1]
            /\ logs' = [recordIterTime(logs, now) EXCEPT !.curr_iter = @ + 1]
            /\ pc' = IF pc = "init_callback" THEN "constructed" ELSE "gd_loop"
            /\ UNCHANGED exception
       ELSE /\ logs' = recordIterTime(logs, now)
            /\ pc' = "error"
            /\ exception' = "AttributeError"
            /\ UNCHANGED bclp
    /\ now' = now + 1
    /\ UNCHANGED <<options, target_geo, g_iter, iter, result, loss_writes, uv_call>>

\* gradientDescent, line 179
gradientDescentBegin ==
    /\ pc = "constructed"
    /\ g_iter' = checkSinogramShape(bclp.g0, "flattened", bclp.g0_shape)
    /\ iter' = 0
    /\ pc' = "gd_loop"
    /\ now' = now + 1
    /\ UNCHANGED <<options, target_geo, logs, bclp, result, loss_writes, exception,
                   uv_call>>

\* line 183: g_iter = g_iter - learning_rate * computeLossGradient(g_iter)
gradientStep ==
    /\ pc = "gd_loop"
    /\ iter < options.n_iter
    /\ bclp' = updateVariables(bclp, logs, g_iter)
    /\ g_iter' = ArrSub(g_iter, ArrScale(bclp.learning_rate, GradientOfState(bclp', logs)))
    /\ uv_call' = Call(now, logs.curr_iter, g_iter)
    /\ iter' = iter + 1
    /\ pc' = "gd_constrain"
    /\ now' = now + 1
    /\ UNCHANGED <<options, target_geo, logs, result, loss_writes, exception>>

\* line 184
constrainStep ==
    /\ pc = "gd_constrain"
    /\ g_iter' = imposeSinogramConstraints(bclp, g_iter)
    /\ pc' = "gd_computeLoss"
    /\ now' = now + 1
    /\ UNCHANGED <<options, target_geo, logs, bclp, iter, result, loss_writes, exception,
                   uv_call>>

\* gradientDescent with a convergence test: the loop also ends once the last
\* recorded loss is 0
gradientDescentReturnOnConvergence ==
    /\ pc = "gd_loop"
    /\ \/ iter = options.n_iter
       \/ PyIndex(logs.loss, logs.curr_iter - 1) = F(0)
    /\ pc' = "gd_return"
    /\ now' = now + 1
    /\ UNCHANGED <<options, target_geo, logs, bclp, g_iter, iter, result, loss_writes,
                   exception, uv_call>>

\* line 190: the range of the for loop is exhausted
gradientDescentReturn ==
    /\ pc = "gd_loop"
    /\ iter = options.n_iter
    /\ pc' = "gd_return"
    /\ now' = now + 1
    /\ UNCHANGED <<options, target_geo, logs, bclp, g_iter, iter, result, loss_writes,
                   exception, uv_call>>

\* minimizeBCLP, lines 245-250
minimizeBCLPReturn ==
    /\ pc = "gd_return"
    /\ g_iter' = checkSinogramShape(g_iter, "flattened", bclp.g0_shape)
    /\ bclp' = IF bclp.verbose = "plot"
               THEN [bclp EXCEPT !.dp.interactive = FALSE]
               ELSE bclp
    /\ result' = [sinogram |-> g_iter', reconstruction |-> bclp.dose, logs |-> logs]
    /\ pc' = "done"
    /\ now' = now + 1
    /\ UNCHANGED <<options, target_geo, logs, iter, loss_writes, exception, uv_call>>

Next ==
    \/ Construct
    \/ computeLoss
    \/ callback
    \/ gradientDescentBegin
    \/ gradientStep
    \/ constrainStep
    \/ gradientDescentReturn
    \/ minimizeBCLPReturn

Spec == Init /\ [][Next]_vars

\* ------------------------------------------------------------------------
\* The constructed object under calls made by any caller: computeLoss,
\* computeLossGradient and callback in any order, with any sinogram.  A call
\* that raises leaves the object as it was at the raise and the caller goes on.
\* ------------------------------------------------------------------------
\* the time up to which calls are followed
MaxNow == 6

\* the sinograms a caller passes, flattened or in the native shape
CallSinograms == { FArr(<<Product(SinoShape)>>, <<0, 3, 2, 0>>), FArr(SinoShape, <<1, 3, 4, 0>>) }

\* bclp.computeLoss(g), lines 137-146: past the last slot the store of line 144
\* raises IndexError, after updateVariables has run
computeLossCall ==
    /\ pc = "constructed"
    /\ now < MaxNow
    /\ \E g \in CallSinograms :
          /\ bclp' = updateVariables(bclp, logs, g)
          /\ uv_call' = Call(now, logs.curr_iter, g)
    /\ IF logs.curr_iter <= options.n_iter
       THEN /\ logs' = [logs EXCEPT !.loss = PyStore(logs.loss, logs.curr_iter,
                                                     LossOfState(bclp'))]
            /\ loss_writes' = PyStore(loss_writes, logs.curr_iter,
                                      PyIndex(loss_writes, logs.curr_iter) + 1)
            /\ exception' = "none"
       ELSE /\ exception' = "IndexError"
            /\ UNCHANGED <<logs, loss_writes>>
    /\ now' = now + 1
    /\ UNCHANGED <<pc, options, target_geo, g_iter, iter, result>>

\* bclp.computeLossGradient(g), lines 150-159: the gradient is returned to the
\* caller, the object changes only through updateVariables
computeLossGradientCall ==
    /\ pc = "constructed"
    /\ now < MaxNow
    /\ \E g \in CallSinograms :
          /\ bclp' = updateVariables(bclp, logs, g)
          /\ uv_call' = Call(now, logs.curr_iter, g)
    /\ exception' = "none"
    /\ now' = now + 1
    /\ UNCHANGED <<pc, options, target_geo, logs, g_iter, iter, result, loss_writes>>

\* callback that also marks the five cached variables stale when it advances
\* the iteration index
callbackCallInvalidating ==
    /\ pc = "constructed"
    /\ now < MaxNow
    /\ IF logs.curr_iter <= options.n_iter
       THEN /\ bclp' = [bclp EXCEPT !.dp.updates = @ + 1,
                                    !.dose_iter = -1, !.mapped_dose_iter = -1,
                                    !.mapped_dose_error_from_f_T_iter = -1,
                                    !.mapped_dose_error_from_band_iter = -1,
                                    !.v_iter = -1]
            /\ logs' = [recordIterTime(logs, now) EXCEPT !.curr_iter = @ + 1]
            /\ exception' = "none"
       ELSE /\ exception' = "IndexError"
            /\ UNCHANGED <<bclp, logs>>
    /\ now' = now + 1
    /\ UNCHANGED <<pc, options, target_geo, g_iter, iter, result, loss_writes, uv_call>>

\* bclp.callback(g), lines 161-173: past the last slot recordIterTime raises
\* IndexError before anything is written
callbackCall ==
    /\ pc = "constructed"
    /\ now < MaxNow
    /\ IF logs.curr_iter <= options.n_iter
       THEN /\ bclp' = [bclp EXCEPT !.dp.updates = @ + 1]
            /\ logs' = [recordIterTime(logs, now) EXCEPT !.curr_iter = @ + 1]
            /\ exception' = "none"
       ELSE /\ exception' = "IndexError"
            /\ UNCHANGED <<bclp, logs>>
    /\ now' = now + 1
    /\ UNCHANGED <<pc, options, target_geo, g_iter, iter, result, loss_writes, uv_call>>

CallNext ==
    \/ Construct
    \/ computeLoss
    \/ callback
    \/ computeLossCall
    \/ computeLossGradientCall
    \/ callbackCall

CallSpec == Init /\ [][CallNext]_vars


\* ------------------------------------------------------------------------
\* Reference quantities used by the properties
\* ------------------------------------------------------------------------
\* the object with every cached variable marked stale
Stale(b) ==
    [b EXCEPT !.dose_iter = -1, !.mapped_dose_iter = -1,
              !.mapped_dose_error_from_f_T_iter = -1,
              !.mapped_dose_error_from_band_iter = -1, !.v_iter = -1]

\* P.backward(g) * tomogram_scale
DoseOf(b, g) ==
    ArrMulFrac(PBackward(checkSinogramShape(g, "cylindrical", b.g0_shape)), b.tomogram_scale)

\* the loss of the sinogram g: the loss formula on variables derived from g
LossOf(b, lg, g) == LossOfState(updateVariables(Stale(b), lg, g))

InBounds(b, g) == \A i \in DOMAIN g.data : FGe(g.data[i], b.glb) /\ FLe(g.data[i], b.gub)

Built == pc \notin {"start"}

\* every voxel's mapped dose is within eps of the target (cached variables)
AllInBand(b) ==
    \A i \in DOMAIN b.mapped_dose_error_from_f_T.data :
        FLe(FAbs(b.mapped_dose_error_from_f_T.data[i]), b.eps)

\* the five cached variables of b
CachedNames ==
    {"dose", "mapped_dose", "mapped_dose_error_from_f_T", "mapped_dose_error_from_band", "v"}

\* the five iteration stamps of b
StampsOf(b) ==
    <<b.dose_iter, b.mapped_dose_iter, b.mapped_dose_error_from_f_T_iter,
      b.mapped_dose_error_from_band_iter, b.v_iter>>

\* each cached variable of b is the one derived from the sinogram g
CacheReflects(b, lg, g) ==
    \A x \in CachedNames : b[x] = updateVariables(Stale(b), lg, g)[x]

\* ------------------------------------------------------------------------
\* Properties
\* ------------------------------------------------------------------------

\* C1: in every iteration of gradientDescent the loss stored at the current
\* iteration index is the loss of the sinogram produced in that iteration,
\* i.e. the loss formula evaluated on dose = P.backward(g_iter) * tomogram_scale.
C1_LossIsOfCurrentSinogram ==
    pc = "gd_callback" =>
        PyIndex(logs.loss, logs.curr_iter) = LossOf(bclp, logs, g_iter)

\* C2: for n_iter >= 1 the dose returned by minimizeBCLP is the dose of the
\* returned sinogram, P.backward(g_final) * tomogram_scale.
C2_DoseIsOfFinalSinogram ==
    (pc = "done" /\ options.n_iter >= 1) =>
        result.reconstruction = DoseOf(bclp, result.sinogram)

\* C3: the sinogram returned by minimizeBCLP has the native shape recorded
\* at initialisation (g0_shape), not the flattened 1-D form.
C3_FinalSinogramIsNative ==
    pc = "done" => result.sinogram.shape = bclp.g0_shape

\* C4: a run without a visualizer (verbose 'off' or 'time') constructs the
\* optimizer and runs to the end without error, and never updates a
\* visualizer.
C4_RunsWithoutVisualizer ==
    (Built /\ options.verbose \in {"off", "time"}) =>
        (exception = "none" /\ bclp.dp.updates = 0)

\* C5: logs.loss has n_iter + 1 slots and, when construction has returned,
\* slot 0 holds a loss and not the unset marker (nan).
C5_SlotZeroPopulated ==
    /\ Built => Len(logs.loss) = options.n_iter + 1
    /\ pc = "constructed" => ~IsNaN(PyIndex(logs.loss, 0))

\* C6: gradientDescent returns after exactly n_iter iterations, each made of
\* a gradient step, a constraint projection, a loss evaluation and a callback,
\* with no early stop: on return the loop has begun n_iter iterations, the run
\* has taken 4 * n_iter + 5 steps, logs.curr_iter = n_iter + 1, the callback
\* ran n_iter + 1 times and every slot 0..n_iter of logs.loss was written
\* exactly once; while the loop runs the iteration index is one ahead of the
\* number of completed iterations and no slot is written twice.
C6_ExactlyNIterIterations ==
    /\ pc \in {"gd_return", "done"} =>
          /\ iter = options.n_iter
          /\ logs.curr_iter = options.n_iter + 1
          /\ bclp.dp.updates = options.n_iter + 1
          /\ now >= 4 * options.n_iter + 5
          /\ \A i \in 0..options.n_iter : PyIndex(loss_writes, i) = 1
    /\ pc = "gd_return" => now = 4 * options.n_iter + 5
    /\ pc = "gd_loop" => (logs.curr_iter = iter + 1 /\ iter <= options.n_iter)
    /\ Built => \A i \in 0..options.n_iter : PyIndex(loss_writes, i) <= 1

C6_Witness ==
    pc = "gd_return" /\ options.n_iter >= 2 /\ iter = options.n_iter

\* C7: with blb <= bub, the initial sinogram and the sinogram at every loss
\* evaluation and at the end of gradientDescent have all elements in
\* [blb, bub].
C7_SinogramWithinBounds ==
    /\ Built => InBounds(bclp, bclp.g0)
    /\ pc \in {"gd_computeLoss", "gd_callback", "gd_loop", "gd_return"} =>
          InBounds(bclp, g_iter)

\* C8: when construction has returned, index 0 of the log holds the loss and
\* every error norm, and the iteration counter is 1.
C8_FullMetricsAtSlotZero ==
    pc = "constructed" =>
        /\ logs.curr_iter = 1
        /\ \A m \in {logs.loss, logs.l0_v, logs.l1_v, logs.l2_v, logs.lf_v,
                     logs.l0_all, logs.l1_all, logs.l2_all, logs.lf_all} :
              ~IsNaN(PyIndex(m, 0))

\* C9: every loss computed by computeLoss is >= 0.
C9_LossNonNegative ==
    Built => \A i \in 0..options.n_iter :
                PyIndex(loss_writes, i) > 0 => FGe(PyIndex(logs.loss, i), F(0))

\* C10: when every voxel is within the tolerance band, the loss is 0 and the
\* per-voxel operand of the gradient is 0 at every voxel.
C10_ZeroInsideBand ==
    (pc \in {"init_callback", "gd_callback"} /\ AllInBand(bclp)) =>
        /\ PyIndex(logs.loss, logs.curr_iter) = F(0)
        /\ \A i \in DOMAIN bclp.v.data : GradientOperand(bclp).data[i] = F(0)

\* C11: after every updateVariables(g) call of construction and of
\* gradientDescent, each of the five cached variables is the one derived from
\* the sinogram g passed to that call: dose = P.backward(g) * tomogram_scale,
\* mapped_dose = map(dose), error_from_f_T = mapped_dose - target,
\* error_from_band = |error_from_f_T| - eps, v = (error_from_band > 0).
C11_CacheReflectsPassedSinogram ==
    uv_call # NoCall => CacheReflects(bclp, logs, uv_call.g)

\* C12: updateVariables is idempotent at a fixed iteration index: a call with
\* the same sinogram and the same logs.curr_iter as the call before it runs no
\* back-projection, no response-model map and no other recomputation, and
\* leaves the five cached variables and their five stamps as they were; no
\* variable is recomputed more than once at one iteration index.
C12_UpdateVariablesIdempotent ==
    [][ /\ (uv_call' # uv_call /\ uv_call'.repeat) =>
              /\ \A x \in CachedNames : bclp'[x] = bclp[x]
              /\ StampsOf(bclp') = StampsOf(bclp)
              /\ bclp'.recomputes = bclp.recomputes
        /\ \A x \in CachedNames :
              \A c \in DOMAIN bclp'.recomputes[x] : bclp'.recomputes[x][c] <= 1
      ]_vars

C12_Witness ==
    /\ pc = "constructed"
    /\ uv_call.repeat
    /\ uv_call.c >= 1
    /\ bclp.recomputes.dose[uv_call.c + 1] = 1
    /\ bclp.recomputes.mapped_dose[uv_call.c + 1] = 1

\* C13: every gradient evaluation of gradientDescent runs at an iteration
\* index c with 1 <= c <= n_iter, and the slot logs.loss[c-1] its scale factor
\* reads is not reached by wrap-around, was written by an earlier computeLoss
\* and does not hold the unset marker (nan).
C13_GradientReadsWrittenLoss ==
    pc = "gd_constrain" =>
        /\ uv_call.c = logs.curr_iter
        /\ logs.curr_iter \in 1..options.n_iter
        /\ PyIndex(loss_writes, logs.curr_iter - 1) >= 1
        /\ ~IsNaN(PyIndex(logs.loss, logs.curr_iter - 1))

\* C14: for one BCLPNorm object, under any sequence of computeLoss,
\* computeLossGradient and callback calls, none of the five iteration stamps
\* (dose_iter, mapped_dose_iter, mapped_dose_error_from_f_T_iter,
\* mapped_dose_error_from_band_iter, v_iter) ever decreases.
C14_StampsNonDecreasing ==
    [][ Built => \A i \in 1..Len(StampsOf(bclp)) :
                    StampsOf(bclp')[i] >= StampsOf(bclp)[i] ]_vars

C14_Witness ==
    /\ pc = "constructed"
    /\ logs.curr_iter = 2
    /\ \A i \in 1..Len(StampsOf(bclp)) : StampsOf(bclp)[i] = 2
    /\ PyIndex(loss_writes, 1) = 0

\* C15: the performance log is append-only during a minimizeBCLP run.  A step
\* at iteration index c stores only into logs.loss[c] (computeLoss) and
\* logs.iter_times[c] (callback), with 0 <= c <= n_iter; slots below the
\* current index are never modified again; the index changes only in callback,
\* by +1, so computeLoss, computeLossGradient (with its updateVariables) and
\* imposeSinogramConstraints leave it unchanged.
C15_LogAppendOnly ==
    [][ Built =>
          /\ Len(logs'.loss) = Len(logs.loss)
          /\ Len(logs'.iter_times) = Len(logs.iter_times)
          /\ \A k \in 0..options.n_iter :
                /\ (PyIndex(logs'.loss, k) # PyIndex(logs.loss, k)
                      \/ PyIndex(loss_writes', k) # PyIndex(loss_writes, k)) =>
                      (k = logs.curr_iter /\ pc \in {"init_computeLoss", "gd_computeLoss"})
                /\ PyIndex(logs'.iter_times, k) # PyIndex(logs.iter_times, k) =>
                      (k = logs.curr_iter /\ pc \in {"init_callback", "gd_callback"})
                /\ k < logs.curr_iter =>
                      /\ PyIndex(logs'.loss, k) = PyIndex(logs.loss, k)
                      /\ PyIndex(logs'.iter_times, k) = PyIndex(logs.iter_times, k)
          /\ logs'.curr_iter # logs.curr_iter =>
                /\ pc \in {"init_callback", "gd_callback"}
                /\ logs'.curr_iter = logs.curr_iter + 1
          /\ pc \in {"init_computeLoss", "gd_computeLoss", "gd_loop", "gd_constrain"} =>
                logs'.curr_iter = logs.curr_iter
      ]_vars

C15_Witness ==
    /\ pc = "done"
    /\ options.n_iter >= 2
    /\ \A k \in 0..options.n_iter :
          /\ PyIndex(loss_writes, k) = 1
          /\ FGt(PyIndex(logs.iter_times, k), F(0))
    /\ \A k \in 1..options.n_iter :
          FGt(PyIndex(logs.iter_times, k), PyIndex(logs.iter_times, k - 1))

=============================================================================
